---- MODULE Spec2Model ----
(***************************************************************************)
(* A model of SimpleICSAnalyzer (src/ics_analyzer_simple.py): the title    *)
(* parser, the location classifier, the duration calculator and the        *)
(* aggregator that _process_simple_event drives.                           *)
(*                                                                         *)
(* A Python str is modelled as a sequence of characters.  An ASCII         *)
(* character is the one-character string holding it; a character outside   *)
(* ASCII is written by its code point: "U+0106" is the one character       *)
(* LATIN CAPITAL LETTER C WITH ACUTE.  Python's None is the value None.    *)
(***************************************************************************)
EXTENDS Integers, Sequences, FiniteSets, TLC

VARIABLES
    stats,              \* self.stats
    location_stats,     \* self.location_stats
    subjects,           \* self.subjects (the keys present in the defaultdict)
    uczelnia_schedule,  \* self.uczelnia_schedule
    time_stats,         \* self.time_stats
    raised,             \* an exception left _process_simple_event
    fed,                \* history: the events handed to _process_simple_event
    pc,                 \* position of the driver of the specification at hand
    arg,                \* the argument of the pure function under call
    ret                 \* what the call returned

vars == <<stats, location_stats, subjects, uczelnia_schedule, time_stats,
          raised, fed, pc, arg, ret>>

(***************************************************************************)
(* Python values and str methods                                           *)
(***************************************************************************)
None == <<"None">>

\* bool(x) of an Optional[str]: None and '' are falsy.
Truthy(x) == x # None /\ x # <<>>

\* str.isspace() of one character; also the class \s of the re module.
IsSpace(c) == c \in {" ", "\t", "\n", "\r", "\f"}

\* str.isdigit() of one character.
IsDigit(c) == c \in {"0", "1", "2", "3", "4", "5", "6", "7", "8", "9"}

\* The character at a 1-based index, "" outside the string.
CharAt(s, i) == IF i \in 1..Len(s) THEN s[i] ELSE ""

\* The least index >= i holding no whitespace (Len(s) + 1 when there is none):
\* where a greedy \s* starting at i stops.
SkipWs(s, i) ==
    CHOOSE j \in i..(Len(s) + 1) :
        /\ \A h \in i..(j - 1) : IsSpace(s[h])
        /\ (j = Len(s) + 1 \/ ~IsSpace(s[j]))

\* str.strip()
Strip(s) ==
    LET a == SkipWs(s, 1)
        b == IF a > Len(s) THEN 0
             ELSE CHOOSE j \in a..Len(s) :
                     /\ ~IsSpace(s[j])
                     /\ \A h \in (j + 1)..Len(s) : IsSpace(s[h])
    IN  IF a > Len(s) THEN <<>> ELSE SubSeq(s, a, b)

\* The literal lit stands in s at index i.
StartsAt(s, i, lit) ==
    /\ i >= 1
    /\ i + Len(lit) - 1 <= Len(s)
    /\ \A h \in 1..Len(lit) : s[i + h - 1] = lit[h]

\* lit in s
In(lit, s) == \E i \in 1..(Len(s) + 1) : StartsAt(s, i, lit)

LowerChar(c) ==
    CASE c = "A" -> "a" [] c = "B" -> "b" [] c = "C" -> "c" [] c = "D" -> "d"
      [] c = "E" -> "e" [] c = "F" -> "f" [] c = "G" -> "g" [] c = "H" -> "h"
      [] c = "I" -> "i" [] c = "J" -> "j" [] c = "K" -> "k" [] c = "L" -> "l"
      [] c = "M" -> "m" [] c = "N" -> "n" [] c = "O" -> "o" [] c = "P" -> "p"
      [] c = "Q" -> "q" [] c = "R" -> "r" [] c = "S" -> "s" [] c = "T" -> "t"
      [] c = "U" -> "u" [] c = "V" -> "v" [] c = "W" -> "w" [] c = "X" -> "x"
      [] c = "Y" -> "y" [] c = "Z" -> "z"
      [] c = "U+0106" -> "U+0107"
      [] OTHER -> c

\* str.lower()
Lower(s) == [i \in 1..Len(s) |-> LowerChar(s[i])]

(***************************************************************************)
(* The literals of the title grammar                                       *)
(***************************************************************************)
TagW == <<"W">>
TagL == <<"L">>
TagECW == <<"E","-","C","W">>
TagEW == <<"E","-","W">>
TagECacuteW == <<"E","-","U+0106","W">>
TagCacuteW == <<"U+0106","W">>
LitProwadzacy == <<"P","r","o","w","a","d","z","U+0105","c","y",":">>
LitSala == <<"S","a","l","a",":">>

(***************************************************************************)
(* re.match of the patterns of parse_event_title.  A match is             *)
(* [ok, g1, g2, g3, g4]: whether the pattern matched and its groups, as    *)
(* the backtracking matcher finds them: a lazy group takes the shortest    *)
(* run for which the rest of the pattern matches, a greedy one the longest.*)
(***************************************************************************)
NoMatch == [ok |-> FALSE, g1 |-> <<>>, g2 |-> <<>>, g3 |-> <<>>, g4 |-> <<>>]

\* The one element of a singleton.  The({e : x \in {v}}) is e with x bound to
\* the value v: a local variable, assigned once and read many times.
The(S) == CHOOSE x \in S : TRUE

Least(S) == CHOOSE x \in S : \A y \in S : x <= y
Greatest(S) == CHOOSE x \in S : \A y \in S : y <= x

\* Every character of s[a..b] is matched by '.', which is all but the newline.
DotRun(s, a, b) == \A h \in a..b : s[h] # "\n"

\* Where '$' matches: at the end, and before a newline that ends the string.
\* A '.+' cannot take that newline, so a '.+$' ends at exactly this index.
DollarEnd(s) == IF CharAt(s, Len(s)) = "\n" THEN Len(s) - 1 ELSE Len(s)

\* '\s*\((tag)\)' from index i, for a tag of the set tags:
\* [ok, tag, pos], pos the index after the closing parenthesis.  The tags of
\* one pattern differ in their first character, so at most one fits.
TagGroup(s, i, tags) ==
    LET Found(q, t) == [ok |-> TRUE, tag |-> t, pos |-> q + 2 + Len(t)]
        Pick(q, M) == IF M = {} THEN [ok |-> FALSE, tag |-> <<>>, pos |-> 0]
                      ELSE Found(q, CHOOSE t \in M : TRUE)
        At(q) == Pick(q, {t \in tags : /\ CharAt(s, q) = "("
                                       /\ StartsAt(s, q + 1, t)
                                       /\ CharAt(s, q + 1 + Len(t)) = ")"})
    IN  At(SkipWs(s, i))

\* '\s*(.+)$' from index i: the greedy \s* keeps the most whitespace that
\* leaves the group a character.  [ok, from]: the group is s[from..DollarEnd].
RoomGroup(s, i) ==
    LET Pick(J) == IF J = {} THEN [ok |-> FALSE, from |-> 0]
                   ELSE [ok |-> TRUE, from |-> Greatest(J)]
        Upto(e) == Pick({j \in i..SkipWs(s, i) : j <= e /\ DotRun(s, j, e)})
    IN  Upto(DollarEnd(s))

\* ',\s*Sala:\s*(.+)$' from index i.
SalaTail(s, i) ==
    LET At(q) == IF CharAt(s, i) = "," /\ StartsAt(s, q, LitSala)
                 THEN RoomGroup(s, q + Len(LitSala))
                 ELSE [ok |-> FALSE, from |-> 0]
    IN  At(SkipWs(s, i + 1))

\* '\s*-\s*Prowadzacy:\s*(.+?),\s*Sala:\s*(.+)$' from index p: [ok, g3, g4].
\* The lazy group starts at b and is m long.  The greedy \s* before it gives
\* whitespace back only when no length of the group fits behind it: the
\* greatest b that fits wins, and with it the least m.
FullTail(s, p) ==
    LET Fail == [ok |-> FALSE, g3 |-> <<>>, g4 |-> <<>>]
        Fits(b, m) == /\ b + m - 1 <= Len(s)
                      /\ DotRun(s, b, b + m - 1)
                      /\ SalaTail(s, b + m).ok
        Groups(b, m, room) ==
            [ok |-> TRUE, g3 |-> SubSeq(s, b, b + m - 1),
             g4 |-> SubSeq(s, room.from, DollarEnd(s))]
        Taken(b, m) == Groups(b, m, SalaTail(s, b + m))
        Longest(C, b) == Taken(b, Least({c[2] : c \in {d \in C : d[1] = b}}))
        Pick(C) == IF C = {} THEN Fail ELSE Longest(C, Greatest({c[1] : c \in C}))
        Instructor(p3) ==
            Pick({c \in (p3..SkipWs(s, p3)) \X (1..Len(s)) : Fits(c[1], c[2])})
        Keyword(q2) == IF StartsAt(s, q2, LitProwadzacy)
                       THEN Instructor(q2 + Len(LitProwadzacy)) ELSE Fail
        Hyphen(q1) == IF CharAt(s, q1) = "-" THEN Keyword(SkipWs(s, q1 + 1)) ELSE Fail
    IN  Hyphen(SkipWs(s, p))

\* '^(.+?)\s*\((tag)\)\s*-\s*Prowadzacy:\s*(.+?),\s*Sala:\s*(.+)$'
\* groups: g1 subject, g2 tag, g3 instructor, g4 room.  The lazy subject is
\* the shortest prefix behind which the rest of the pattern matches.
FullPattern(s, tags) ==
    LET Groups(n, t, f) == [ok |-> TRUE, g1 |-> SubSeq(s, 1, n), g2 |-> t.tag,
                            g3 |-> f.g3, g4 |-> f.g4]
        Tagged(n, t) == Groups(n, t, FullTail(s, t.pos))
        Rest(t) == t.ok /\ FullTail(s, t.pos).ok
        Fits(n) == DotRun(s, 1, n) /\ Rest(TagGroup(s, n + 1, tags))
        Pick(N) == IF N = {} THEN NoMatch
                   ELSE Tagged(Least(N), TagGroup(s, Least(N) + 1, tags))
    IN  Pick({n \in 1..Len(s) : Fits(n)})

\* '^(.+?)\s*\((tag)\)': groups g1 subject, g2 tag; the match may end before
\* the end of the title.
SimplePattern(s, tags) ==
    LET Groups(n, t) == [ok |-> TRUE, g1 |-> SubSeq(s, 1, n), g2 |-> t.tag,
                         g3 |-> <<>>, g4 |-> <<>>]
        Pick(N) == IF N = {} THEN NoMatch
                   ELSE Groups(Least(N), TagGroup(s, Least(N) + 1, tags))
    IN  Pick({n \in 1..Len(s) : DotRun(s, 1, n) /\ TagGroup(s, n + 1, tags).ok})

pattern1(title) == FullPattern(title, {TagW, TagL, TagECW})
pattern2(title) == FullPattern(title, {TagEW})
pattern3(title) == FullPattern(title, {TagECacuteW})
pattern4(title) == FullPattern(title, {TagCacuteW})

\* The tags of simple_patterns[i], i counted from 0 as in the source.
simple_tags(i) ==
    CASE i = 0 -> {TagW, TagL, TagECW}
      [] i = 1 -> {TagEW}
      [] i = 2 -> {TagECacuteW}
      [] i = 3 -> {TagCacuteW}

simple_patterns(i, title) == SimplePattern(title, simple_tags(i))

\* The result of a format that did not match: the next format is tried.
Miss == [hit |-> FALSE, result |-> <<None, None, None, None>>]

\* A faulty format 1 that returns the instructor as matched, not trimmed.
format1_InstructorAsMatched(title) ==
    The({ IF match1.ok
          THEN [hit |-> TRUE,
                result |-> <<Strip(match1.g1), Strip(match1.g2), match1.g3, Strip(match1.g4)>>]
          ELSE Miss : match1 \in {pattern1(title)} })

\* Format 1: the full form with the tag W, L or E-CW; the type is the tag.
format1(title) ==
    The({ IF match1.ok
          THEN [hit |-> TRUE,
                result |-> <<Strip(match1.g1), Strip(match1.g2), Strip(match1.g3), Strip(match1.g4)>>]
          ELSE Miss : match1 \in {pattern1(title)} })

\* Format 2: the full form with the tag E-W, taken as a lecture.
format2(title) ==
    The({ IF match2.ok
          THEN [hit |-> TRUE,
                result |-> <<Strip(match2.g1), TagW, Strip(match2.g3), Strip(match2.g4)>>]
          ELSE Miss : match2 \in {pattern2(title)} })

\* Format 3: the full form with the tag E-CW written with C acute.
format3(title) ==
    The({ IF match3.ok
          THEN [hit |-> TRUE,
                result |-> <<Strip(match3.g1), TagECW, Strip(match3.g3), Strip(match3.g4)>>]
          ELSE Miss : match3 \in {pattern3(title)} })

\* A faulty format 4 that takes the tag CW-acute as a remote exercise.
format4_AsRemoteExercise(title) ==
    The({ IF match4.ok
          THEN [hit |-> TRUE,
                result |-> <<Strip(match4.g1), TagECW, Strip(match4.g3), Strip(match4.g4)>>]
          ELSE Miss : match4 \in {pattern4(title)} })

\* Format 4: the full form with the tag CW written with C acute, taken as a lab.
format4(title) ==
    The({ IF match4.ok
          THEN [hit |-> TRUE,
                result |-> <<Strip(match4.g1), TagL, Strip(match4.g3), Strip(match4.g4)>>]
          ELSE Miss : match4 \in {pattern4(title)} })

\* The fallback loop over simple_patterns: the first pattern that matches
\* decides; instructor and room are None.
fallback(title) ==
    LET event_type(i, match) ==
            CASE i = 0 -> Strip(match.g2)
              [] i = 1 -> TagW
              [] i = 2 -> TagECW
              [] i = 3 -> TagL
        Result(i, match) ==
            [hit |-> TRUE, result |-> <<Strip(match.g1), event_type(i, match), None, None>>]
        First(i) == Result(i, simple_patterns(i, title))
        Pick(Hits) == IF Hits = {} THEN Miss ELSE First(Least(Hits))
    IN  Pick({i \in 0..3 : simple_patterns(i, title).ok})

\* SimpleICSAnalyzer.parse_event_title: <<subject, event_type, instructor, room>>
parse_event_title(raw) ==
    The({ The({ IF f1.hit THEN f1.result ELSE
          The({ IF f2.hit THEN f2.result ELSE
          The({ IF f3.hit THEN f3.result ELSE
          The({ IF f4.hit THEN f4.result ELSE
          The({ IF f5.hit THEN f5.result ELSE <<None, None, None, None>>
              : f5 \in {fallback(title)} })
              : f4 \in {format4(title)} })
              : f3 \in {format3(title)} })
              : f2 \in {format2(title)} })
              : f1 \in {format1(title)} })
        : title \in {Strip(raw)} })

(***************************************************************************)
(* SimpleICSAnalyzer.categorize_location                                   *)
(***************************************************************************)
\* str.startswith of a tuple of prefixes
StartsWithAny(s, prefixes) == \E p \in prefixes : StartsAt(s, 1, p)

\* A faulty classifier that looks for Moodle before it looks for Teams.
categorize_location_MoodleFirst(room) ==
    LET Rules(room_lower) ==
            IF In(<<"m","o","o","d","l","e">>, room_lower) THEN "moodle"
            ELSE IF In(<<"t","e","a","m","s">>, room_lower) THEN "teams"
            ELSE IF \E keyword \in {<<"s","a","l","a">>,
                                    <<"b","u","d","y","n","e","k">>,
                                    <<"a","u","l","a">>,
                                    <<"l","a","b","o","r","a","t","o","r","i","u","m">>} :
                       In(keyword, room_lower)
            THEN "uczelnia"
            ELSE IF /\ StartsWithAny(room_lower,
                                     {<<"a">>, <<"b">>, <<"c">>, <<"d">>, <<"e">>, <<"f">>})
                    /\ \E i \in 1..Len(room_lower) : IsDigit(room_lower[i])
            THEN "uczelnia"
            ELSE "inne_lokalizacje"
    IN  IF ~Truthy(room) THEN "inne_lokalizacje" ELSE Rules(Lower(room))

categorize_location(room) ==
    LET Rules(room_lower) ==
            IF In(<<"t","e","a","m","s">>, room_lower)
               \/ In(<<"p","l","a","t","f","o","r","m","a"," ","t","e","a","m","s">>, room_lower)
            THEN "teams"
            ELSE IF In(<<"m","o","o","d","l","e">>, room_lower)
               \/ In(<<"p","l","a","t","f","o","r","m","a"," ","m","o","o","d","l","e">>, room_lower)
            THEN "moodle"
            ELSE IF \E keyword \in {<<"s","a","l","a">>,
                                    <<"b","u","d","y","n","e","k">>,
                                    <<"a","u","l","a">>,
                                    <<"l","a","b","o","r","a","t","o","r","i","u","m">>} :
                       In(keyword, room_lower)
            THEN "uczelnia"
            ELSE IF /\ StartsWithAny(room_lower,
                                     {<<"a">>, <<"b">>, <<"c">>, <<"d">>, <<"e">>, <<"f">>})
                    /\ \E i \in 1..Len(room_lower) : IsDigit(room_lower[i])
            THEN "uczelnia"
            ELSE "inne_lokalizacje"
    IN  IF ~Truthy(room) THEN "inne_lokalizacje" ELSE Rules(Lower(room))

(***************************************************************************)
(* SimpleICSAnalyzer._calculate_duration_minutes                           *)
(***************************************************************************)
\* s[a:b] for 0 <= a <= b
Slice(s, a, b) == SubSeq(s, a + 1, IF b < Len(s) THEN b ELSE Len(s))

DigitVal(c) ==
    CASE c = "0" -> 0 [] c = "1" -> 1 [] c = "2" -> 2 [] c = "3" -> 3
      [] c = "4" -> 4 [] c = "5" -> 5 [] c = "6" -> 6 [] c = "7" -> 7
      [] c = "8" -> 8 [] c = "9" -> 9

RECURSIVE DecVal(_)
\* The number a run of digits and underscores denotes.
DecVal(ds) ==
    IF ds = <<>> THEN 0
    ELSE IF ds[Len(ds)] = "_" THEN DecVal(SubSeq(ds, 1, Len(ds) - 1))
    ELSE 10 * DecVal(SubSeq(ds, 1, Len(ds) - 1)) + DigitVal(ds[Len(ds)])

\* int(s) of a str: [ok, val]; ok is FALSE where int raises ValueError.
\* int accepts surrounding whitespace, one sign, and digits that single
\* underscores may separate.
PyInt(s) ==
    LET WellFormed(body) ==
            /\ body # <<>>
            /\ \A h \in 1..Len(body) : IsDigit(body[h]) \/ body[h] = "_"
            /\ IsDigit(body[1]) /\ IsDigit(body[Len(body)])
            /\ \A h \in 1..(Len(body) - 1) : ~(body[h] = "_" /\ body[h + 1] = "_")
        Signed(sign, body) ==
            IF ~WellFormed(body) THEN [ok |-> FALSE, val |-> 0]
            ELSE [ok |-> TRUE, val |-> IF sign = "-" THEN 0 - DecVal(body) ELSE DecVal(body)]
        Stripped(t) ==
            IF CharAt(t, 1) \in {"+", "-"} THEN Signed(t[1], SubSeq(t, 2, Len(t)))
            ELSE Signed("+", t)
    IN  Stripped(Strip(s))

_calculate_duration_minutes(start_time, end_time) ==
    LET Minutes(start_hour, start_minute, end_hour, end_minute) ==
            \* a ValueError of any of the four int() calls is caught
            IF start_hour.ok /\ start_minute.ok /\ end_hour.ok /\ end_minute.ok
            THEN (end_hour.val * 60 + end_minute.val)
                 - (start_hour.val * 60 + start_minute.val)
            ELSE 0
    IN  IF ~Truthy(start_time) \/ ~Truthy(end_time) THEN 0
        ELSE Minutes(PyInt(Slice(start_time, 9, 11)), PyInt(Slice(start_time, 11, 13)),
                     PyInt(Slice(end_time, 9, 11)), PyInt(Slice(end_time, 11, 13)))

(***************************************************************************)
(* SimpleICSAnalyzer: construction and _process_simple_event.  An analyzer *)
(* is the record of its fields; the keys of its dicts are written without  *)
(* diacritics (wyklady, prowadzacy).                                       *)
(***************************************************************************)
\* The value the defaultdict self.subjects makes for a missing key.
DefaultSubject ==
    [wyklady |-> 0, laboratoria |-> 0, e_cw |-> 0, prowadzacy |-> {}, sale |-> {}]

\* SimpleICSAnalyzer.__init__
NewAnalyzer ==
    [stats |-> [wyklady |-> 0, laboratoria |-> 0, e_cw |-> 0, inne |-> 0,
                total_events |-> 0],
     location_stats |-> [teams |-> 0, moodle |-> 0, uczelnia |-> 0,
                         inne_lokalizacje |-> 0],
     subjects |-> <<>>,
     uczelnia_schedule |-> <<>>,
     time_stats |-> [total_minutes |-> 0, wyklady_minutes |-> 0,
                     laboratoria_minutes |-> 0, e_cw_minutes |-> 0,
                     uczelnia_minutes |-> 0, zdalne_minutes |-> 0],
     raised |-> FALSE]

\* dict.get(key, default)
Get(d, key, default) == IF key \in DOMAIN d THEN d[key] ELSE default

\* self.subjects after self.subjects[subject] was read: the key is there.
Touch(subs, subject) ==
    [k \in DOMAIN subs \cup {subject} |->
        IF k \in DOMAIN subs THEN subs[k] ELSE DefaultSubject]

\* The three values _process_simple_event reads from the event.
EventTitle(event) == Get(event, "SUMMARY", <<>>)
EventStart(event) ==
    Get(event, "DTSTART;TZID=Europe/Warsaw", Get(event, "DTSTART", <<>>))
EventEnd(event) ==
    Get(event, "DTEND;TZID=Europe/Warsaw", Get(event, "DTEND", <<>>))

\* Every event is counted and its duration added to the running total.
CountEvent(self, duration_minutes) ==
    [self EXCEPT !.stats.total_events = @ + 1,
                 !.time_stats.total_minutes = @ + duration_minutes]

\* A faulty unparsed branch that returns without counting the event.
CountUnparsed_NotCounted(self) == self

\* A faulty unparsed branch that also counts the event under 'other location'.
CountUnparsed_CountsLocation(self) ==
    [self EXCEPT !.stats.inne = @ + 1, !.location_stats.inne_lokalizacje = @ + 1]

\* A faulty unparsed branch that ends in an error.
CountUnparsed_Raises(self) == [self EXCEPT !.raised = TRUE]

\* The title did not parse: the event is counted as 'inne'.
CountUnparsed(self) == [self EXCEPT !.stats.inne = @ + 1]

\* A faulty type step that counts a lab without counting it for its subject.
CountType_LabNotForSubject(self, subject, event_type, duration_minutes) ==
    IF event_type = TagW
    THEN [self EXCEPT !.stats.wyklady = @ + 1,
                      !.subjects = [Touch(@, subject) EXCEPT ![subject].wyklady = @ + 1],
                      !.time_stats.wyklady_minutes = @ + duration_minutes]
    ELSE IF event_type = TagL
    THEN [self EXCEPT !.stats.laboratoria = @ + 1,
                      !.time_stats.laboratoria_minutes = @ + duration_minutes]
    ELSE IF event_type \in {TagECW, TagECacuteW}
    THEN [self EXCEPT !.stats.e_cw = @ + 1,
                      !.subjects = [Touch(@, subject) EXCEPT ![subject].e_cw = @ + 1],
                      !.time_stats.e_cw_minutes = @ + duration_minutes]
    ELSE [self EXCEPT !.stats.inne = @ + 1]

\* The counters and the minutes of the event's type.
CountType(self, subject, event_type, duration_minutes) ==
    IF event_type = TagW
    THEN [self EXCEPT !.stats.wyklady = @ + 1,
                      !.subjects = [Touch(@, subject) EXCEPT ![subject].wyklady = @ + 1],
                      !.time_stats.wyklady_minutes = @ + duration_minutes]
    ELSE IF event_type = TagL
    THEN [self EXCEPT !.stats.laboratoria = @ + 1,
                      !.subjects = [Touch(@, subject) EXCEPT ![subject].laboratoria = @ + 1],
                      !.time_stats.laboratoria_minutes = @ + duration_minutes]
    ELSE IF event_type \in {TagECW, TagECacuteW}
    THEN [self EXCEPT !.stats.e_cw = @ + 1,
                      !.subjects = [Touch(@, subject) EXCEPT ![subject].e_cw = @ + 1],
                      !.time_stats.e_cw_minutes = @ + duration_minutes]
    ELSE [self EXCEPT !.stats.inne = @ + 1]

\* A faulty step that keeps only the instructor of the latest event.
AddSubjectInfo_LatestInstructor(self, subject, instructor, room) ==
    LET withInstructor ==
            IF Truthy(instructor)
            THEN [Touch(self.subjects, subject) EXCEPT
                     ![subject].prowadzacy = {instructor}]
            ELSE self.subjects
        withRoom ==
            IF Truthy(room)
            THEN [Touch(withInstructor, subject) EXCEPT ![subject].sale = @ \cup {room}]
            ELSE withInstructor
    IN  [self EXCEPT !.subjects = withRoom]

\* The instructor and the room join the subject's sets when present.
AddSubjectInfo(self, subject, instructor, room) ==
    LET withInstructor ==
            IF Truthy(instructor)
            THEN [Touch(self.subjects, subject) EXCEPT
                     ![subject].prowadzacy = @ \cup {instructor}]
            ELSE self.subjects
        withRoom ==
            IF Truthy(room)
            THEN [Touch(withInstructor, subject) EXCEPT ![subject].sale = @ \cup {room}]
            ELSE withInstructor
    IN  [self EXCEPT !.subjects = withRoom]

\* A faulty location step that adds the minutes of an event outside the
\* campus to the remote minutes only when it is on Teams or Moodle.
CountLocation_RemoteOnly(self, location_category, duration_minutes) ==
    LET counted == [self EXCEPT !.location_stats[location_category] = @ + 1]
    IN  IF location_category = "uczelnia"
        THEN [counted EXCEPT !.time_stats.uczelnia_minutes = @ + duration_minutes]
        ELSE IF location_category \in {"teams", "moodle"}
        THEN [counted EXCEPT !.time_stats.zdalne_minutes = @ + duration_minutes]
        ELSE counted

\* The counter and the minutes of the event's location category.
CountLocation(self, location_category, duration_minutes) ==
    LET counted == [self EXCEPT !.location_stats[location_category] = @ + 1]
    IN  IF location_category = "uczelnia"
        THEN [counted EXCEPT !.time_stats.uczelnia_minutes = @ + duration_minutes]
        ELSE [counted EXCEPT !.time_stats.zdalne_minutes = @ + duration_minutes]

\* A faulty itinerary step that takes an event without a start token.
AddToSchedule_NoStartCheck(self, location_category, subject, event_type, instructor, room, start_time, end_time, title) ==
    IF location_category = "uczelnia" /\ Truthy(room)
    THEN [self EXCEPT !.uczelnia_schedule =
             Append(@, [subject |-> subject, type |-> event_type,
                        instructor |-> instructor, room |-> room,
                        start_time |-> start_time, end_time |-> end_time,
                        title |-> title])]
    ELSE self

\* A faulty itinerary step that puts the entry first.
AddToSchedule_Prepends(self, location_category, subject, event_type, instructor, room, start_time, end_time, title) ==
    IF location_category = "uczelnia" /\ Truthy(start_time) /\ Truthy(room)
    THEN [self EXCEPT !.uczelnia_schedule =
             <<[subject |-> subject, type |-> event_type,
                instructor |-> instructor, room |-> room,
                start_time |-> start_time, end_time |-> end_time,
                title |-> title]>> \o @]
    ELSE self

\* An event on campus with a start time and a room joins the schedule.
AddToSchedule(self, location_category, subject, event_type, instructor, room, start_time, end_time, title) ==
    IF location_category = "uczelnia" /\ Truthy(start_time) /\ Truthy(room)
    THEN [self EXCEPT !.uczelnia_schedule =
             Append(@, [subject |-> subject, type |-> event_type,
                        instructor |-> instructor, room |-> room,
                        start_time |-> start_time, end_time |-> end_time,
                        title |-> title])]
    ELSE self

\* SimpleICSAnalyzer._process_simple_event: the analyzer after the call.
\* self.location_stats[location_category] raises KeyError on a category that
\* is no key of the dict; what was written before it stays written.
_process_simple_event(self, event) ==
    The({
        LET title == EventTitle(event)
            start_time == EventStart(event)
            end_time == EventEnd(event)
            subject == parsed[1]
            event_type == parsed[2]
            instructor == parsed[3]
            room == parsed[4]
        IN  IF ~Truthy(subject) \/ ~Truthy(event_type)
            THEN CountUnparsed(CountEvent(self, duration_minutes))
            ELSE The({
                IF location_category \notin DOMAIN informed.location_stats
                THEN [informed EXCEPT !.raised = TRUE]
                ELSE AddToSchedule(
                         CountLocation(informed, location_category, duration_minutes),
                         location_category, subject, event_type, instructor, room,
                         start_time, end_time, title)
                : informed \in {AddSubjectInfo(
                                    CountType(CountEvent(self, duration_minutes),
                                              subject, event_type, duration_minutes),
                                    subject, instructor, room)},
                  location_category \in {categorize_location(room)} })
        : duration_minutes \in
              {_calculate_duration_minutes(EventStart(event), EventEnd(event))},
          parsed \in {parse_event_title(EventTitle(event))} })

(***************************************************************************)
(* Titles as the calendar writes them                                      *)
(***************************************************************************)
\* '<s><w1>(<t>)<w2>-<w3>Prowadzacy: <i>, Sala: <r>'
FullTitle(s, w1, t, w2, w3, i, r) ==
    s \o w1 \o <<"(">> \o t \o <<")">> \o w2 \o <<"-">> \o w3
      \o LitProwadzacy \o <<" ">> \o i \o <<",", " ">> \o LitSala \o <<" ">> \o r

\* '<s><w1>(<t>)'
ShortTitle(s, w1, t) == s \o w1 \o <<"(">> \o t \o <<")">>

Sp == <<" ">>

(***************************************************************************)
(* Bounds                                                                  *)
(***************************************************************************)
\* The most events one analysis run is fed.
MaxEvents == 3
\* The longest run of spaces put around the parentheses and the hyphen.
MaxWs == 1

(***************************************************************************)
(* The analysis run: analyze_ics_file feeds the events of one calendar,    *)
(* one after the other, to a fresh analyzer.                               *)
(***************************************************************************)
Tok0800 == <<"2","0","2","5","1","1","1","6","T","0","8","0","0","0","0">>
Tok0915 == <<"2","0","2","5","1","1","1","6","T","0","9","1","5","0","0">>
Tok2300 == <<"2","0","2","5","1","1","1","6","T","2","3","0","0","0","0">>
TokNext0100 == <<"2","0","2","5","1","1","1","7","T","0","1","0","0","0","0">>

SubjBD == <<"B","D">>
SubjAl == <<"A","l">>
InstrJK == <<"J","K">>
InstrAN == <<"A","N">>
InstrMK == <<"M","K">>
RoomA101 == <<"A","1","0","1">>
RoomB2 == <<"B","2">>
RoomAula == <<"A","u","l","a">>
RoomTeams == <<"P","l","a","t","f","o","r","m","a"," ","T","e","a","m","s">>
RoomMoodle == <<"M","o","o","d","l","e">>
TitleLosowy == <<"L","o","s","o","w","y"," ","t","e","k","s","t">>

\* The events a calendar may hold: each a dict of the VEVENT's lines.
Events ==
    { \* a lecture on campus; the TZID keys win over the plain ones
      ("SUMMARY" :> FullTitle(SubjBD, Sp, TagW, Sp, Sp, InstrJK, RoomA101)
         @@ "DTSTART;TZID=Europe/Warsaw" :> Tok0800 @@ "DTSTART" :> Tok2300
         @@ "DTEND;TZID=Europe/Warsaw" :> Tok0915),
      \* a remote exercise on Teams
      ("SUMMARY" :> FullTitle(SubjAl, Sp, TagECW, Sp, Sp, InstrAN, RoomTeams)
         @@ "DTSTART" :> Tok0800 @@ "DTEND" :> Tok0915),
      \* the same with the tag written with C acute
      ("SUMMARY" :> FullTitle(SubjAl, Sp, TagECacuteW, Sp, Sp, InstrMK, RoomTeams)
         @@ "DTSTART" :> Tok0915 @@ "DTEND" :> Tok2300),
      \* free text
      ("SUMMARY" :> TitleLosowy @@ "DTSTART" :> Tok0800 @@ "DTEND" :> Tok0915),
      \* the short form, without times
      ("SUMMARY" :> ShortTitle(SubjBD, Sp, TagL) @@ "UID" :> <<"1">>),
      \* an exercise on Moodle that ends after midnight
      ("SUMMARY" :> FullTitle(SubjAl, Sp, TagCacuteW, Sp, Sp, InstrAN, RoomMoodle)
         @@ "DTSTART" :> Tok2300 @@ "DTEND" :> TokNext0100),
      \* a lecture on campus without a start
      ("SUMMARY" :> FullTitle(SubjBD, Sp, TagEW, Sp, Sp, InstrMK, RoomAula)
         @@ "DTEND" :> Tok0915),
      \* an event without a summary
      ("DTSTART" :> Tok0800 @@ "DTEND" :> Tok0915),
      \* a lab on campus, in a room named by its code
      ("SUMMARY" :> FullTitle(SubjAl, <<>>, TagL, <<>>, <<>>, InstrAN, RoomB2)
         @@ "DTSTART" :> Tok0915 @@ "DTEND" :> Tok2300),
      \* a lecture in the short form, with times: it has no room
      ("SUMMARY" :> ShortTitle(SubjAl, Sp, TagW)
         @@ "DTSTART" :> Tok0800 @@ "DTEND" :> Tok0915) }

\* The analyzer the variables hold.
Self ==
    [stats |-> stats, location_stats |-> location_stats, subjects |-> subjects,
     uczelnia_schedule |-> uczelnia_schedule, time_stats |-> time_stats,
     raised |-> raised]

\* The variables hold the analyzer a.
Holds(a) ==
    /\ stats = a.stats
    /\ location_stats = a.location_stats
    /\ subjects = a.subjects
    /\ uczelnia_schedule = a.uczelnia_schedule
    /\ time_stats = a.time_stats
    /\ raised = a.raised

Init ==
    /\ Holds(NewAnalyzer)
    /\ fed = <<>>
    /\ pc = "loop"
    /\ arg = <<>>
    /\ ret = <<>>

\* One turn of 'for event in events: self._process_simple_event(event)'.
\* An exception ends the loop.
ProcessEvent ==
    /\ pc = "loop"
    /\ ~raised
    /\ Len(fed) < MaxEvents
    /\ \E event \in Events :
          \E after \in {_process_simple_event(Self, event)} :
              /\ stats' = after.stats
              /\ location_stats' = after.location_stats
              /\ subjects' = after.subjects
              /\ uczelnia_schedule' = after.uczelnia_schedule
              /\ time_stats' = after.time_stats
              /\ raised' = after.raised
              /\ fed' = Append(fed, event)
    /\ UNCHANGED <<pc, arg, ret>>

Next == ProcessEvent

Spec == Init /\ [][Next]_vars

(***************************************************************************)
(* The pure functions under call: a driver picks an argument, calls the    *)
(* function once and keeps what it returned.  The analyzer stays fresh.    *)
(***************************************************************************)
Spaces(n) == [k \in 1..n |-> " "]

\* The whitespace put around the parentheses and the hyphen.
WsRuns == {Spaces(n) : n \in 0..MaxWs} \cup {<<"\t">>, <<"\n">>}

RecognizedTags == {TagW, TagL, TagECW, TagEW, TagECacuteW, TagCacuteW}

\* Bracketed texts that are no tag of the grammar.
OtherTags ==
    { <<"X">>, <<"w">>, <<>>, <<"W","L">>, <<" ","W">>, <<"W"," ">>,
      <<"E","-","L">>, <<"C","W">>, <<"e","-","c","w">>, <<"E","W">>,
      <<"U+0107","w">>, <<"E","-","U+0106">> }

\* The parts a title is written from.
Parts(form, s, w1, t, w2, w3, i, r) ==
    [form |-> form, s |-> s, w1 |-> w1, t |-> t, w2 |-> w2, w3 |-> w3,
     i |-> i, r |-> r]

\* Every tag, known or not, in the full and in the short form.
TagArgs ==
    { Parts(form, SubjBD, Sp, t, Sp, Sp, InstrJK, RoomA101) :
        form \in {"full", "short"}, t \in RecognizedTags \cup OtherTags }

\* Full-form titles of ordinary parts, under every layout of the whitespace.
RoundTripArgs ==
    { Parts("full", s, w[1], t, w[2], w[3], i, r) :
        s \in {SubjBD, <<" ","A"," ","b"," ">>, <<"X"," ","(","W",")">>},
        w \in WsRuns \X WsRuns \X WsRuns,
        t \in RecognizedTags,
        i \in {InstrJK, <<"J"," ","K",","," ","A"," ","N">>, <<" ","x"," ">>},
        r \in {RoomA101, <<" ","P"," ","T"," ">>} }

\* Full-form titles whose parts hold the grammar's own markers, a line break,
\* or nothing.
HostileArgs ==
    { Parts("full", p[1], Sp, t, Sp, Sp, p[2], p[3]) :
        t \in RecognizedTags,
        p \in { <<<<"Q"," ","(","L",")","-","P","r","o","w","a","d","z","U+0105","c","y",":"," ","x",",","S","a","l","a",":","y">>, InstrJK, RoomA101>>,
                <<SubjBD, <<"x",","," ","S","a","l","a",":"," ","y">>, RoomA101>>,
                <<SubjBD, <<"x"," ","(","W",")"," ","-"," ","P","r","o","w","a","d","z","U+0105","c","y",":"," ","z">>, RoomA101>>,
                <<SubjBD, <<>>, <<"y",","," ","S","a","l","a",":"," ","z">>>>,
                <<SubjBD, <<>>, RoomA101>>,
                <<SubjBD, InstrJK, <<>>>>,
                <<SubjBD, InstrJK, <<"a","\n","b">>>>,
                <<<<"A","\n","B">>, InstrJK, RoomA101>>,
                <<<<>>, InstrJK, RoomA101>> } }

\* Titles without a bracketed tag.
BareArgs ==
    { Parts("bare", s, <<>>, <<>>, <<>>, <<>>, <<>>, <<>>) :
        s \in {TitleLosowy, <<>>, Sp, <<"B","D"," ","W">>} }

\* Titles of the short form with more text behind the tag; the text is
\* kept in r.
TailArgs ==
    { Parts("tail", SubjBD, Sp, t, <<>>, <<>>, <<>>, r) :
        t \in RecognizedTags,
        r \in { <<" ","x">>, <<"x">>, <<" ","(","L",")">>,
                <<" ","-"," ","S","a","l","a",":"," ","B","2">> } }

ParseArgs == TagArgs \cup RoundTripArgs \cup HostileArgs \cup BareArgs \cup TailArgs

\* The title written from the parts.
TitleOf(a) ==
    CASE a.form = "full" -> FullTitle(a.s, a.w1, a.t, a.w2, a.w3, a.i, a.r)
      [] a.form = "short" -> ShortTitle(a.s, a.w1, a.t)
      [] a.form = "bare" -> a.s
      [] a.form = "tail" -> ShortTitle(a.s, a.w1, a.t) \o a.r

InitParse ==
    /\ Holds(NewAnalyzer)
    /\ fed = <<>>
    /\ pc = "call"
    /\ arg \in ParseArgs
    /\ ret = <<>>

\* result = analyzer.parse_event_title(title)
CallParse ==
    /\ pc = "call"
    /\ ret' = parse_event_title(TitleOf(arg))
    /\ pc' = "return"
    /\ UNCHANGED <<stats, location_stats, subjects, uczelnia_schedule,
                   time_stats, raised, fed, arg>>

NextParse == CallParse

SpecParse == InitParse /\ [][NextParse]_vars

\* The rooms handed to categorize_location: a word of the rules, or none, in
\* some case, behind a prefix and before a suffix.
RoomWords ==
    { <<>>, <<"t","e","a","m","s">>, <<"T","E","A","M","S">>, <<"P","l","a","t","f","o","r","m","a"," ","T","e","a","m","s">>, <<"M","o","o","d","l","e">>, <<"M","O","O","D","L","E">>,
      <<"s","a","l","a">>, <<"A","u","l","a">>, <<"B","u","d","y","n","e","k">>, <<"L","A","B","O","R","A","T","O","R","I","U","M">>, <<"M","o","o","d","l","e","/","T","e","a","m","s">>, <<"t","e","a","m","s"," ","m","o","o","d","l","e">>, <<"S","a","l","a"," ","M","o","o","d","l","e">>,
      <<"t","e","a"," ","m","s">>, <<"x","y","z">> }
RoomPrefixes == { <<>>, <<"A">>, <<"g">>, <<"e">>, <<"F">>, <<"1">>, <<" ">> }
RoomSuffixes == { <<>>, <<"1">>, <<" ", "x">> }

RoomArgs ==
    {None} \cup {a \o w \o z : a \in RoomPrefixes, w \in RoomWords, z \in RoomSuffixes}

InitLoc ==
    /\ Holds(NewAnalyzer)
    /\ fed = <<>>
    /\ pc = "call"
    /\ arg \in RoomArgs
    /\ ret = <<>>

\* category = analyzer.categorize_location(room)
CallCategorize ==
    /\ pc = "call"
    /\ ret' = categorize_location(arg)
    /\ pc' = "return"
    /\ UNCHANGED <<stats, location_stats, subjects, uczelnia_schedule,
                   time_stats, raised, fed, arg>>

NextLoc == CallCategorize

SpecLoc == InitLoc /\ [][NextLoc]_vars

\* The tokens handed to _calculate_duration_minutes: timestamps as the
\* calendar writes them, cut short, with a date that is none, with
\* separators, with a letter among the digits, and none at all.
TokCut12 == <<"2","0","2","5","1","1","1","6","T","0","8","0">>
TokCut11 == <<"2","0","2","5","1","1","1","6","T","0","8">>
TokCut9 == <<"2","0","2","5","1","1","1","6","T">>
TokNoDate == <<"X","X","X","X","X","X","X","X","X","0","9","1","5">>
TokIso == <<"2","0","2","5","-","1","1","-","1","6","T","0","8",":","0","0">>
TokLetter == <<"2","0","2","5","1","1","1","6","T","0","8","a","0","0","0">>

TimeTokens ==
    { <<>>, Tok0800, Tok0915, Tok2300, TokNext0100, TokCut12, TokCut11,
      TokCut9, TokNoDate, TokIso, TokLetter }

InitDur ==
    /\ Holds(NewAnalyzer)
    /\ fed = <<>>
    /\ pc = "call"
    /\ arg \in TimeTokens \X TimeTokens
    /\ ret = 0

\* minutes = analyzer._calculate_duration_minutes(start_time, end_time)
CallDuration ==
    /\ pc = "call"
    /\ ret' = _calculate_duration_minutes(arg[1], arg[2])
    /\ pc' = "return"
    /\ UNCHANGED <<stats, location_stats, subjects, uczelnia_schedule,
                   time_stats, raised, fed, arg>>

NextDur == CallDuration

SpecDur == InitDur /\ [][NextDur]_vars

(***************************************************************************)
(* Two analysis runs side by side: two analyzers, each made by __init__,   *)
(* are fed the same events, the first one step ahead of the second.  The   *)
(* variables hold the first analyzer, arg holds the second, and ret the    *)
(* events fed to the second.                                               *)
(***************************************************************************)
\* A faulty call after which the other analyzer sees the subjects of the
\* one that was called, as if both held the same dict.
Feed_SharedSubjects(pair, k, event) ==
    The({ [j \in 1..2 |-> IF j = k THEN after
                          ELSE [pair[j] EXCEPT !.subjects = after.subjects]]
          : after \in {_process_simple_event(pair[k], event)} })

\* pair[k]._process_simple_event(event): the method writes to the fields of
\* self, which __init__ made for this analyzer alone.
Feed(pair, k, event) ==
    [pair EXCEPT ![k] = _process_simple_event(@, event)]

InitTwin ==
    /\ Holds(NewAnalyzer)
    /\ arg = NewAnalyzer
    /\ fed = <<>>
    /\ ret = <<>>
    /\ pc = "first"

\* first._process_simple_event(event)
FeedFirst ==
    /\ pc = "first"
    /\ ~raised
    /\ Len(fed) < MaxEvents
    /\ \E event \in Events :
          \E after \in {Feed(<<Self, arg>>, 1, event)} :
              /\ stats' = after[1].stats
              /\ location_stats' = after[1].location_stats
              /\ subjects' = after[1].subjects
              /\ uczelnia_schedule' = after[1].uczelnia_schedule
              /\ time_stats' = after[1].time_stats
              /\ raised' = after[1].raised
              /\ arg' = after[2]
              /\ fed' = Append(fed, event)
    /\ pc' = "second"
    /\ UNCHANGED ret

\* second._process_simple_event(event), with the event the first was fed
FeedSecond ==
    /\ pc = "second"
    /\ \E after \in {Feed(<<Self, arg>>, 2, fed[Len(fed)])} :
          /\ stats' = after[1].stats
          /\ location_stats' = after[1].location_stats
          /\ subjects' = after[1].subjects
          /\ uczelnia_schedule' = after[1].uczelnia_schedule
          /\ time_stats' = after[1].time_stats
          /\ raised' = after[1].raised
          /\ arg' = after[2]
    /\ ret' = Append(ret, fed[Len(fed)])
    /\ pc' = "first"
    /\ UNCHANGED fed

NextTwin == FeedFirst \/ FeedSecond

SpecTwin == InitTwin /\ [][NextTwin]_vars

(***************************************************************************)
(* What the properties speak of                                            *)
(***************************************************************************)
\* The title of the event parses: parse_event_title names a subject and a type.
TitleParses(event) ==
    \E parsed \in {parse_event_title(EventTitle(event))} :
        Truthy(parsed[1]) /\ Truthy(parsed[2])

\* The events fed so far whose title parses, in the order fed.
ParsableFed == SelectSeq(fed, TitleParses)

Last(seq) == seq[Len(seq)]
Front(seq) == SubSeq(seq, 1, Len(seq) - 1)

RECURSIVE Replay(_)
\* A fresh analyzer after the events of seq, fed in order.
Replay(seq) ==
    IF seq = <<>> THEN NewAnalyzer
    ELSE _process_simple_event(Replay(Front(seq)), Last(seq))

\* The counters by type, the counters by location, the subject records and
\* the itinerary of an analyzer.
Aggregates(a) ==
    <<a.stats.wyklady, a.stats.laboratoria, a.stats.e_cw,
      a.location_stats, a.subjects, a.uczelnia_schedule>>

\* The event is one the itinerary takes: its title parses, its room is on
\* campus, and room and start token are present.
OnItinerary(event) ==
    \E parsed \in {parse_event_title(EventTitle(event))} :
        /\ Truthy(parsed[1]) /\ Truthy(parsed[2])
        /\ categorize_location(parsed[4]) = "uczelnia"
        /\ Truthy(parsed[4])
        /\ Truthy(EventStart(event))

\* The six fields of the itinerary entry of an event.
EntryOf(event) ==
    The({ <<parsed[1], parsed[2], parsed[3], parsed[4],
            EventStart(event), EventEnd(event)>>
          : parsed \in {parse_event_title(EventTitle(event))} })

\* The six fields of each entry of a schedule.
EntryFields(schedule) ==
    [k \in 1..Len(schedule) |->
        <<schedule[k].subject, schedule[k].type, schedule[k].instructor,
          schedule[k].room, schedule[k].start_time, schedule[k].end_time>>]

RECURSIVE Itinerary(_)
\* The entries of the events of seq that the itinerary takes, in input order.
Itinerary(seq) ==
    IF seq = <<>> THEN <<>>
    ELSE IF OnItinerary(Last(seq))
         THEN Append(Itinerary(Front(seq)), EntryOf(Last(seq)))
         ELSE Itinerary(Front(seq))

\* The table of the tags: W and E-W are lectures, L and CW-acute labs, E-CW
\* and E-CW-acute remote exercises.
TagTable(t) ==
    CASE t \in {TagW, TagEW} -> TagW
      [] t \in {TagL, TagCacuteW} -> TagL
      [] t \in {TagECW, TagECacuteW} -> TagECW

Unparsed == <<None, None, None, None>>

Blank(x) == Strip(x) = <<>>

\* The text holds a parenthesis.
Bracketed(x) == \E k \in 1..Len(x) : x[k] \in {"(", ")"}

\* The text holds a line break.
Broken(x) == \E k \in 1..Len(x) : x[k] = "\n"

\* The text holds one of the two markers of the full form.
Marked(x) == In(LitProwadzacy, x) \/ In(LitSala, x)

\* The parts are written in the full or the short form around one bracketed
\* tag: a subject on one line, and no other parenthesis in the title.
OneTag(a) ==
    /\ a.form \in {"full", "short"}
    /\ ~Blank(a.s) /\ ~Broken(a.s)
    /\ ~Bracketed(a.s) /\ ~Bracketed(a.t) /\ ~Bracketed(a.i) /\ ~Bracketed(a.r)

\* The parts can be told apart in the title: subject and room are not blank,
\* and no part holds a line break or a marker of the full form.
Separable(a) ==
    /\ ~Blank(a.s) /\ ~Blank(a.r)
    /\ ~Broken(a.s) /\ ~Broken(a.i) /\ ~Broken(a.r)
    /\ ~Marked(a.s) /\ ~Marked(a.i) /\ ~Marked(a.r)

\* The room holds the word, whatever the case of its letters.
HasWord(room, word) ==
    \E k \in 1..(Len(room) - Len(word) + 1) :
        \A h \in 1..Len(word) : LowerChar(room[k + h - 1]) = word[h]

\* The rule list of the location classifier, first rule that applies.
RuleList(room) ==
    IF room = None \/ room = <<>> THEN "inne_lokalizacje"
    ELSE IF HasWord(room, <<"t","e","a","m","s">>) THEN "teams"
    ELSE IF HasWord(room, <<"m","o","o","d","l","e">>) THEN "moodle"
    ELSE IF \/ HasWord(room, <<"s","a","l","a">>)
            \/ HasWord(room, <<"b","u","d","y","n","e","k">>)
            \/ HasWord(room, <<"a","u","l","a">>)
            \/ HasWord(room, <<"l","a","b","o","r","a","t","o","r","i","u","m">>)
         THEN "uczelnia"
    ELSE IF /\ LowerChar(room[1]) \in {"a", "b", "c", "d", "e", "f"}
            /\ \E k \in 1..Len(room) : IsDigit(room[k])
         THEN "uczelnia"
    ELSE "inne_lokalizacje"

\* The token is a timestamp YYYYMMDDTHHMMSS.
WellFormedToken(tok) ==
    /\ Len(tok) = 15
    /\ tok[9] = "T"
    /\ \A k \in (1..8) \cup (10..15) : IsDigit(tok[k])

\* The minute of the day a well-formed token names.
MinuteOfDay(tok) ==
    (10 * DigitVal(tok[10]) + DigitVal(tok[11])) * 60
    + 10 * DigitVal(tok[12]) + DigitVal(tok[13])

(***************************************************************************)
(* The properties                                                          *)
(***************************************************************************)
\* C1: in every state of a run, the three counters by type and the counter
\* of unparsed events ('inne') add up to total_events, and the three
\* counters by type add up to the number of events fed whose title parsed.
C1_CountersAddUp ==
    /\ stats.wyklady + stats.laboratoria + stats.e_cw + stats.inne
         = stats.total_events
    /\ stats.wyklady + stats.laboratoria + stats.e_cw = Len(ParsableFed)

\* C1 witness: events of two types and an unparsed one have been counted.
C1_Witness ==
    stats.wyklady >= 1 /\ stats.e_cw >= 1 /\ stats.inne >= 1

\* C2: a call of _process_simple_event with a title that does not parse
\* adds one to 'inne' and one to total_events and leaves the counters by
\* type, the minutes by type, the counters and the minutes by location, the
\* subjects and the itinerary as they were.
C2_UnparsedFrame ==
    [][ (fed' # fed /\ ~TitleParses(Last(fed'))) =>
          /\ stats'.inne = stats.inne + 1
          /\ stats'.total_events = stats.total_events + 1
          /\ stats'.wyklady = stats.wyklady
          /\ stats'.laboratoria = stats.laboratoria
          /\ stats'.e_cw = stats.e_cw
          /\ time_stats'.wyklady_minutes = time_stats.wyklady_minutes
          /\ time_stats'.laboratoria_minutes = time_stats.laboratoria_minutes
          /\ time_stats'.e_cw_minutes = time_stats.e_cw_minutes
          /\ time_stats'.uczelnia_minutes = time_stats.uczelnia_minutes
          /\ time_stats'.zdalne_minutes = time_stats.zdalne_minutes
          /\ location_stats' = location_stats
          /\ subjects' = subjects
          /\ uczelnia_schedule' = uczelnia_schedule ]_vars

\* C2 witness: an unparsed event with a duration has been processed by an
\* analyzer that held subjects and an itinerary.
C2_Witness ==
    /\ Len(fed) >= 2
    /\ ~TitleParses(Last(fed))
    /\ _calculate_duration_minutes(EventStart(Last(fed)), EventEnd(Last(fed))) > 0
    /\ DOMAIN subjects # {}
    /\ uczelnia_schedule # <<>>

\* C3: _process_simple_event never ends in an error, every event fed is
\* counted, and the counters by type, the counters by location, the subject
\* records and the itinerary are those a fresh analyzer reaches on the same
\* events with those of unparsable title left out.
C3_FailuresContained ==
    /\ ~raised
    /\ stats.total_events = Len(fed)
    /\ Aggregates(Self) = Aggregates(Replay(ParsableFed))

\* C3 witness: an event that parses was processed after one that does not.
C3_Witness ==
    \E i, j \in 1..Len(fed) :
        i < j /\ ~TitleParses(fed[i]) /\ TitleParses(fed[j]) /\ stats.total_events = 3

\* C4: for a title written around one bracketed tag, in the full or the
\* short form, the type returned is W for the tags W and E-W, L for L and
\* CW-acute, E-CW for E-CW and E-CW-acute; with any other bracketed tag the
\* result is the unparsed one; and no other type is ever returned.
C4_TagNormalization ==
    pc = "return" =>
        /\ ret[2] \in {TagW, TagL, TagECW, None}
        /\ OneTag(arg) =>
              IF arg.t \in RecognizedTags
              THEN ret[2] = TagTable(arg.t)
              ELSE ret = Unparsed

\* C4 witness: a full-form title with the tag CW-acute came back as a lab.
C4_Witness ==
    /\ pc = "return"
    /\ OneTag(arg) /\ arg.form = "full" /\ arg.t = TagCacuteW
    /\ ret[2] = TagL

\* C5, as stated: parse_event_title returns, for the full-form title written
\* from any subject s, recognized tag t, instructor i and room r, under any
\* whitespace around the parentheses and the hyphen, exactly
\* (trim(s), normalize(t), trim(i), trim(r)).
C5_RoundTripOfAnyParts ==
    (pc = "return" /\ arg.form = "full" /\ arg.t \in RecognizedTags) =>
        ret = <<Strip(arg.s), TagTable(arg.t), Strip(arg.i), Strip(arg.r)>>

\* C5, amended: the same for parts that can be told apart in the title: a
\* subject and a room that are not blank, and no part holding a line break
\* or one of the markers 'Prowadzacy:' and 'Sala:'.
C5_RoundTrip ==
    (pc = "return" /\ arg.form = "full" /\ arg.t \in RecognizedTags
       /\ Separable(arg)) =>
        ret = <<Strip(arg.s), TagTable(arg.t), Strip(arg.i), Strip(arg.r)>>

\* C5 witness: a title with a bracketed subject, two instructors and a line
\* break before the hyphen came back as its four parts.
C5_Witness ==
    /\ pc = "return" /\ arg.form = "full" /\ Separable(arg)
    /\ arg.t = TagECacuteW
    /\ Bracketed(arg.s)
    /\ In(<<",">>, arg.i)
    /\ arg.w2 = <<"\n">>
    /\ ret = <<Strip(arg.s), TagECW, Strip(arg.i), Strip(arg.r)>>

\* C6: _calculate_duration_minutes returns no negative number, so the total
\* minutes and the minutes by type and by location are never negative.
C6_MinutesNeverNegative ==
    /\ \A k \in 1..Len(fed) :
          _calculate_duration_minutes(EventStart(fed[k]), EventEnd(fed[k])) >= 0
    /\ time_stats.total_minutes >= 0
    /\ time_stats.wyklady_minutes >= 0
    /\ time_stats.laboratoria_minutes >= 0
    /\ time_stats.e_cw_minutes >= 0
    /\ time_stats.uczelnia_minutes >= 0
    /\ time_stats.zdalne_minutes >= 0

\* C7: _calculate_duration_minutes returns 0 when either token is absent,
\* too short or otherwise no timestamp YYYYMMDDTHHMMSS, and for two
\* timestamps the minute of the day of the end less that of the start.
C7_MalformedTokenGivesZero ==
    pc = "return" =>
        IF WellFormedToken(arg[1]) /\ WellFormedToken(arg[2])
        THEN ret = MinuteOfDay(arg[2]) - MinuteOfDay(arg[1])
        ELSE ret = 0

\* C8: categorize_location returns, for every room, the category of the
\* first rule of the list that applies, whatever the case of the letters:
\* no room, Teams, Moodle, a word for a place on campus, a building code.
C8_LocationRules ==
    pc = "return" =>
        /\ ret \in {"teams", "moodle", "uczelnia", "inne_lokalizacje"}
        /\ ret = RuleList(arg)

\* C8 witness: a room naming Moodle and Teams, in capitals, came back as Teams.
C8_Witness ==
    /\ pc = "return"
    /\ arg # None
    /\ HasWord(arg, <<"m","o","o","d","l","e">>)
    /\ ~In(<<"t","e","a","m","s">>, arg)
    /\ ret = "teams"

\* C9: every entry of the itinerary has a room and a start token, and its
\* room, classified again, is on campus.
C9_ItineraryOnCampus ==
    \A k \in 1..Len(uczelnia_schedule) :
        /\ Truthy(uczelnia_schedule[k].room)
        /\ Truthy(uczelnia_schedule[k].start_time)
        /\ categorize_location(uczelnia_schedule[k].room) = "uczelnia"

\* C9 witness: the itinerary holds an entry while a Teams event, a Moodle
\* event and an event on campus without a start were counted and left out.
C9_Witness ==
    /\ Len(uczelnia_schedule) = 1
    /\ location_stats.uczelnia = 2
    /\ location_stats.teams + location_stats.moodle = 1

\* C10: the itinerary is, in input order, the entries of exactly those
\* events fed whose title parses, whose room is on campus and whose room and
\* start token are present, each with the event's subject, type,
\* instructor, room, start token and end token.
C10_ItineraryIsSubsequence ==
    EntryFields(uczelnia_schedule) = Itinerary(fed)

\* C10 witness: of three events the first and the last are on the
\* itinerary, in that order, and the one between them is not.
C10_Witness ==
    /\ Len(fed) = 3
    /\ Len(uczelnia_schedule) = 2
    /\ ~OnItinerary(fed[2])
    /\ uczelnia_schedule[1].subject # uczelnia_schedule[2].subject
    /\ uczelnia_schedule[1].title = EventTitle(fed[1])

\* The duration _process_simple_event computes for the event.
DurationOf(event) ==
    _calculate_duration_minutes(EventStart(event), EventEnd(event))

\* The subject and the room parse_event_title reads from the event's title.
SubjectOf(event) == parse_event_title(EventTitle(event))[1]
RoomOf(event) == parse_event_title(EventTitle(event))[4]

\* The events fed so far whose title parses with the subject.
FedWithSubject(subject) ==
    {k \in 1..Len(fed) : TitleParses(fed[k]) /\ SubjectOf(fed[k]) = subject}

RECURSIVE SumOver(_, _)
\* The sum of the durations of the events of seq at the indices of K.
SumOver(seq, K) ==
    IF K = {} THEN 0
    ELSE LET k == CHOOSE h \in K : TRUE
         IN  DurationOf(seq[k]) + SumOver(seq, K \ {k})

\* The events fed so far whose title parses and whose room is of a category
\* of the set.
FedIn(categories) ==
    {k \in 1..Len(fed) :
        TitleParses(fed[k]) /\ categorize_location(RoomOf(fed[k])) \in categories}

\* C11: in every state of a run, a subject has a record exactly when an
\* event fed so far parsed with that subject, the three counters of the
\* record add up to the number of those events, and no step removes a record.
C11_SubjectCounters ==
    /\ [](/\ DOMAIN subjects = {SubjectOf(fed[k]) : k \in {h \in 1..Len(fed) : TitleParses(fed[h])}}
          /\ \A subject \in DOMAIN subjects :
                subjects[subject].wyklady + subjects[subject].laboratoria
                  + subjects[subject].e_cw = Cardinality(FedWithSubject(subject)))
    /\ [][DOMAIN subjects \subseteq DOMAIN subjects']_vars

\* C11 witness: two subjects have records, one of them counted twice, under
\* two types.
C11_Witness ==
    /\ Cardinality(DOMAIN subjects) = 2
    /\ \E subject \in DOMAIN subjects :
          /\ subjects[subject].wyklady + subjects[subject].laboratoria
               + subjects[subject].e_cw = 2
          /\ subjects[subject].laboratoria = 1

\* C13: in every state of a run, the minutes on campus are the summed
\* durations of the parsed events whose room is on campus, and the remote
\* minutes are the summed durations of the parsed events whose room is on
\* Teams or on Moodle.
C13_MinutesOfOwnCategory ==
    /\ time_stats.uczelnia_minutes = SumOver(fed, FedIn({"uczelnia"}))
    /\ time_stats.zdalne_minutes = SumOver(fed, FedIn({"teams", "moodle"}))

\* C17: in every state of a run, the four location counters add up to the
\* three type counters, the minutes on campus and the remote minutes add up
\* to the minutes of the three types, and the total minutes are that sum
\* plus the durations of the events whose title did not parse.
C17_TypeAndLocationViews ==
    /\ location_stats.teams + location_stats.moodle + location_stats.uczelnia
         + location_stats.inne_lokalizacje
         = stats.wyklady + stats.laboratoria + stats.e_cw
    /\ stats.wyklady + stats.laboratoria + stats.e_cw = Len(ParsableFed)
    /\ time_stats.uczelnia_minutes + time_stats.zdalne_minutes
         = time_stats.wyklady_minutes + time_stats.laboratoria_minutes
           + time_stats.e_cw_minutes
    /\ time_stats.total_minutes
         = time_stats.wyklady_minutes + time_stats.laboratoria_minutes
           + time_stats.e_cw_minutes
           + SumOver(fed, {k \in 1..Len(fed) : ~TitleParses(fed[k])})

\* C17 witness: an unparsed event with a duration, an event on campus and an
\* event with a duration in no room have been processed.
C17_Witness ==
    /\ stats.inne = 1
    /\ location_stats.uczelnia = 1
    /\ location_stats.inne_lokalizacje = 1
    /\ SumOver(fed, FedIn({"inne_lokalizacje"})) > 0
    /\ SumOver(fed, {k \in 1..Len(fed) : ~TitleParses(fed[k])}) > 0

NoDate == [ok |-> FALSE, date_str |-> None, time_str |-> None, date_obj |-> None]

IsLeap(year) == (year % 4 = 0 /\ year % 100 # 0) \/ year % 400 = 0

DaysInMonth(year, month) ==
    CASE month \in {1, 3, 5, 7, 8, 10, 12} -> 31
      [] month \in {4, 6, 9, 11} -> 30
      [] month = 2 -> IF IsLeap(year) THEN 29 ELSE 28

RECURSIVE DaysBeforeMonth(_, _)
DaysBeforeMonth(year, month) ==
    IF month = 1 THEN 0
    ELSE DaysBeforeMonth(year, month - 1) + DaysInMonth(year, month - 1)

\* date_obj.weekday(): 0 is Monday; day 1 of year 1 is a Monday.
Weekday(year, month, day) ==
    LET y == year - 1
    IN  (365 * y + (y \div 4) - (y \div 100) + (y \div 400)
           + DaysBeforeMonth(year, month) + day + 6) % 7

\* datetime(year, month, day, hour, minute) raises ValueError outside these.
ValidDateTime(year, month, day, hour, minute) ==
    /\ year \in 1..9999
    /\ month \in 1..12
    /\ day >= 1 /\ day <= DaysInMonth(year, month)
    /\ hour \in 0..23
    /\ minute \in 0..59

\* SimpleICSAnalyzer._parse_datetime: [ok, date_str, time_str, date_obj].
\* date_str is the day, the month, the year and the weekday it names;
\* time_str the hour and the minute; date_obj the five numbers of the datetime.
_parse_datetime(datetime_str) ==
    LET Made(year, month, day, hour, minute) ==
            IF ~(year.ok /\ month.ok /\ day.ok /\ hour.ok /\ minute.ok) THEN NoDate
            ELSE IF ~ValidDateTime(year.val, month.val, day.val, hour.val, minute.val)
            THEN NoDate
            ELSE [ok |-> TRUE,
                  date_str |-> <<day.val, month.val, year.val,
                                 Weekday(year.val, month.val, day.val)>>,
                  time_str |-> <<hour.val, minute.val>>,
                  date_obj |-> <<year.val, month.val, day.val, hour.val, minute.val>>]
    IN  IF ~Truthy(datetime_str) THEN NoDate
        ELSE Made(PyInt(Slice(datetime_str, 0, 4)), PyInt(Slice(datetime_str, 4, 6)),
                  PyInt(Slice(datetime_str, 6, 8)), PyInt(Slice(datetime_str, 9, 11)),
                  PyInt(Slice(datetime_str, 11, 13)))

\* a < b for two tuples of numbers of one length, as Python compares datetimes
RECURSIVE TupleLess(_, _)
TupleLess(a, b) ==
    IF a = <<>> THEN FALSE
    ELSE IF a[1] # b[1] THEN a[1] < b[1]
    ELSE TupleLess(Tail(a), Tail(b))

\* The sort key of an entry: its date_obj, or 1 January 1900 when it has none.
SortKey(entry) ==
    The({ IF parsed.ok THEN parsed.date_obj ELSE <<1900, 1, 1, 0, 0>>
          : parsed \in {_parse_datetime(entry.start_time)} })

RECURSIVE SortedByKey(_)
\* sorted(schedule, key=...): stable, so an entry goes behind those of its key.
SortedByKey(schedule) ==
    IF schedule = <<>> THEN <<>>
    ELSE LET Insert(sorted, entry) ==
                 LET n == Cardinality({k \in 1..Len(sorted) :
                                          ~TupleLess(SortKey(entry), SortKey(sorted[k]))})
                 IN  SubSeq(sorted, 1, n) \o <<entry>> \o SubSeq(sorted, n + 1, Len(sorted))
         IN  Insert(SortedByKey(SubSeq(schedule, 1, Len(schedule) - 1)),
                    schedule[Len(schedule)])

DigitChar(d) ==
    CASE d = 0 -> "0" [] d = 1 -> "1" [] d = 2 -> "2" [] d = 3 -> "3"
      [] d = 4 -> "4" [] d = 5 -> "5" [] d = 6 -> "6" [] d = 7 -> "7"
      [] d = 8 -> "8" [] d = 9 -> "9"

RECURSIVE Decimal(_)
\* The digits of a number >= 0, without padding.
Decimal(n) ==
    IF n < 10 THEN <<DigitChar(n)>>
    ELSE Decimal(n \div 10) \o <<DigitChar(n % 10)>>

\* '%02d' of a number below 100
TwoDigits(n) == <<DigitChar(n \div 10), DigitChar(n % 10)>>

\* date_obj.strftime('%Y-%m-%d'): the key of a day.  The C library of the
\* platform writes the year without padding, so a year below 1000 has
\* fewer than four digits.
DayKey(date_obj) ==
    Decimal(date_obj[1]) \o <<"-">> \o TwoDigits(date_obj[2])
      \o <<"-">> \o TwoDigits(date_obj[3])

\* The place of a character of a day key in the order of the code points.
KeyCharRank(c) == IF c = "-" THEN 0 ELSE 1 + DigitVal(c)

RECURSIVE StrLess(_, _)
\* a < b for two str, as Python compares them
StrLess(a, b) ==
    IF b = <<>> THEN FALSE
    ELSE IF a = <<>> THEN TRUE
    ELSE IF a[1] # b[1] THEN KeyCharRank(a[1]) < KeyCharRank(b[1])
    ELSE StrLess(Tail(a), Tail(b))

RECURSIVE Ascending(_)
\* sorted(keys): the keys of the set in ascending order
Ascending(keys) ==
    IF keys = {} THEN <<>>
    ELSE LET least == CHOOSE a \in keys : \A b \in keys : ~StrLess(b, a)
         IN  <<least>> \o Ascending(keys \ {least})

\* One numbered line of a day: the two times and the entry printed with them.
ReportLine(event) ==
    [start_time |-> _parse_datetime(event.start_time).time_str,
     end_time |-> _parse_datetime(event.end_time).time_str,
     event |-> event]

\* SimpleICSAnalyzer._print_uczelnia_schedule: what is printed.
_print_uczelnia_schedule(self) ==
    IF self.uczelnia_schedule = <<>>
    THEN [printed |-> FALSE, days |-> <<>>, day_counter |-> 0, classes |-> 0]
    ELSE LET Dated(event) == _parse_datetime(event.start_time).ok
             Report(sorted_schedule) ==
                 LET day_keys ==
                         Ascending({DayKey(_parse_datetime(sorted_schedule[k].start_time).date_obj) :
                                      k \in {h \in 1..Len(sorted_schedule) : Dated(sorted_schedule[h])}})
                     OfDay(day_key) ==
                         LET On(event) ==
                                 Dated(event)
                                   /\ DayKey(_parse_datetime(event.start_time).date_obj) = day_key
                         IN  SelectSeq(sorted_schedule, On)
                     Day(events_for_day) ==
                         [date_str |-> _parse_datetime(events_for_day[1].start_time).date_str,
                          lines |-> [k \in 1..Len(events_for_day) |-> ReportLine(events_for_day[k])]]
                 IN  [printed |-> TRUE,
                      days |-> [d \in 1..Len(day_keys) |-> Day(OfDay(day_keys[d]))],
                      day_counter |-> Len(day_keys),
                      classes |-> Len(sorted_schedule)]
         IN  Report(SortedByKey(self.uczelnia_schedule))

(***************************************************************************)
(* The report of an analysis run: an analyzer that was fed events on       *)
(* campus prints its itinerary.                                            *)
(***************************************************************************)
\* The most events fed before the itinerary is printed.
MaxListed == 3

TokOct2300 == <<"2","0","2","5","1","0","1","7","T","2","3","0","0","0","0">>
TokDateOnly == <<"2","0","2","5","1","1","1","6">>
TokFeb30 == <<"2","0","2","5","0","2","3","0","T","0","8","0","0","0","0">>

\* Events on campus, told apart by their start: two times of one day, the
\* same time twice, a day of an earlier month, a date without a time and a
\* date the calendar does not have.
ReportEvents ==
    { ("SUMMARY" :> FullTitle(SubjBD, Sp, TagW, Sp, Sp, InstrJK, RoomA101)
         @@ "DTSTART" :> Tok0915 @@ "DTEND" :> Tok2300),
      ("SUMMARY" :> FullTitle(SubjAl, Sp, TagL, Sp, Sp, InstrAN, RoomB2)
         @@ "DTSTART" :> Tok0800 @@ "DTEND" :> Tok0915),
      ("SUMMARY" :> FullTitle(SubjBD, Sp, TagL, Sp, Sp, InstrMK, RoomAula)
         @@ "DTSTART" :> Tok0800),
      ("SUMMARY" :> FullTitle(SubjAl, Sp, TagW, Sp, Sp, InstrJK, RoomA101)
         @@ "DTSTART" :> TokOct2300 @@ "DTEND" :> TokNext0100),
      ("SUMMARY" :> FullTitle(SubjBD, Sp, TagEW, Sp, Sp, InstrAN, RoomB2)
         @@ "DTSTART" :> TokDateOnly @@ "DTEND" :> TokDateOnly),
      ("SUMMARY" :> FullTitle(SubjAl, Sp, TagCacuteW, Sp, Sp, InstrMK, RoomAula)
         @@ "DTSTART" :> TokFeb30 @@ "DTEND" :> Tok0915) }

InitReport ==
    /\ \E n \in 0..MaxListed :
          \E events \in [1..n -> ReportEvents] :
              \E a \in {Replay(events)} :
                  /\ Holds(a)
                  /\ fed = events
    /\ pc = "report"
    /\ arg = <<>>
    /\ ret = <<>>

\* self._print_uczelnia_schedule()
PrintSchedule ==
    /\ pc = "report"
    /\ ret' = _print_uczelnia_schedule(Self)
    /\ pc' = "printed"
    /\ UNCHANGED <<stats, location_stats, subjects, uczelnia_schedule,
                   time_stats, raised, fed, arg>>

NextReport == PrintSchedule

SpecReport == InitReport /\ [][NextReport]_vars

\* The entries the report lists, day after day.
RECURSIVE ListedFrom(_, _)
ListedFrom(days, d) ==
    IF d > Len(days) THEN <<>>
    ELSE [k \in 1..Len(days[d].lines) |-> days[d].lines[k].event]
           \o ListedFrom(days, d + 1)

\* How often the entry occurs in the sequence.
Occurrences(entry, seq) == Cardinality({k \in 1..Len(seq) : seq[k] = entry})

\* The year, the month and the day of a printed date.
DateOfDay(day) == <<day.date_str[3], day.date_str[2], day.date_str[1]>>

\* C14: the printed itinerary lists every entry of uczelnia_schedule in
\* exactly one day group, the day groups in ascending order of their date
\* and the lines of a group in non-decreasing start time; the day count it
\* reports is the number of distinct dates among the start tokens of the
\* entries, and the class count it reports is the number of lines listed.
C14_ItineraryReport ==
    (pc = "printed" /\ uczelnia_schedule # <<>>) =>
        /\ \A k \in 1..Len(uczelnia_schedule) :
               Occurrences(uczelnia_schedule[k], ListedFrom(ret.days, 1))
                 = Occurrences(uczelnia_schedule[k], uczelnia_schedule)
        /\ \A d \in 1..(Len(ret.days) - 1) :
               TupleLess(DateOfDay(ret.days[d]), DateOfDay(ret.days[d + 1]))
        /\ \A d \in 1..Len(ret.days) :
               \A k \in 1..(Len(ret.days[d].lines) - 1) :
                   ~TupleLess(ret.days[d].lines[k + 1].start_time,
                              ret.days[d].lines[k].start_time)
        /\ ret.day_counter =
               Cardinality({Slice(uczelnia_schedule[k].start_time, 0, 8) :
                              k \in 1..Len(uczelnia_schedule)})
        /\ ret.classes = Len(ListedFrom(ret.days, 1))

(***************************************************************************)
(* The grammar of two shapes: one full-form pattern and one short-form     *)
(* pattern, each over the whole tag set, and the table of the tags.        *)
(***************************************************************************)
GrammarParse(raw) ==
    The({ The({ IF full.ok
                THEN <<Strip(full.g1), TagTable(full.g2), Strip(full.g3), Strip(full.g4)>>
                ELSE The({ IF short.ok
                           THEN <<Strip(short.g1), TagTable(short.g2), None, None>>
                           ELSE Unparsed
                           : short \in {SimplePattern(title, RecognizedTags)} })
                : full \in {FullPattern(title, RecognizedTags)} })
          : title \in {Strip(raw)} })

\* The title is in the full form: subject, recognized tag, instructor, room.
InFullForm(title) == FullPattern(title, RecognizedTags).ok

\* The title is in the short form: a subject, a recognized tag in
\* parentheses, and nothing behind it.
InShortForm(title) ==
    \E n \in 1..Len(title) :
        \E tag \in {TagGroup(title, n + 1, RecognizedTags)} :
            tag.ok /\ tag.pos = Len(title) + 1

\* C15: for every title, parse_event_title returns what the grammar of two
\* shapes returns: the full-form pattern over the whole tag set first, the
\* short-form pattern over the same set second, then the table of the tags.
C15_EightPatternsAreTheGrammar ==
    pc = "return" => ret = GrammarParse(TitleOf(arg))

\* C16: parse_event_title returns a parsed result only for a title in the
\* full form or in the short form, in the short form without instructor and
\* room, and the unparsed result for every title in neither form.
C16_OnlyTheTwoForms ==
    pc = "return" =>
        \E title \in {Strip(TitleOf(arg))} :
            IF InFullForm(title) THEN ret # Unparsed
            ELSE IF InShortForm(title)
                 THEN ret # Unparsed /\ ret[3] = None /\ ret[4] = None
                 ELSE ret = Unparsed

(***************************************************************************)
(* ICSAnalyzer (ics_analyzer.py), the analyzer built on the icalendar      *)
(* library: its parse_event_title and its categorize_location.             *)
(***************************************************************************)
\* ICSAnalyzer.parse_event_title: one full-form pattern and one simple
\* pattern, both over the tags W, L and E-CW.
ICSAnalyzer_parse_event_title(raw) ==
    The({ The({ IF match.ok
                THEN <<Strip(match.g1), Strip(match.g2), Strip(match.g3), Strip(match.g4)>>
                ELSE The({ IF simple_match.ok
                           THEN <<Strip(simple_match.g1), Strip(simple_match.g2), None, None>>
                           ELSE <<None, None, None, None>>
                           : simple_match \in {SimplePattern(title, {TagW, TagL, TagECW})} })
                : match \in {FullPattern(title, {TagW, TagL, TagECW})} })
          : title \in {Strip(raw)} })

\* ICSAnalyzer.categorize_location: a building code begins with a, b or c.
ICSAnalyzer_categorize_location(room) ==
    LET Rules(room_lower) ==
            IF In(<<"t","e","a","m","s">>, room_lower)
               \/ In(<<"p","l","a","t","f","o","r","m","a"," ","t","e","a","m","s">>, room_lower)
            THEN "teams"
            ELSE IF In(<<"m","o","o","d","l","e">>, room_lower)
               \/ In(<<"p","l","a","t","f","o","r","m","a"," ","m","o","o","d","l","e">>, room_lower)
            THEN "moodle"
            ELSE IF \E keyword \in {<<"s","a","l","a">>,
                                    <<"b","u","d","y","n","e","k">>,
                                    <<"a","u","l","a">>,
                                    <<"l","a","b","o","r","a","t","o","r","i","u","m">>} :
                       In(keyword, room_lower)
            THEN "uczelnia"
            ELSE IF /\ StartsWithAny(room_lower, {<<"a">>, <<"b">>, <<"c">>})
                    /\ \E i \in 1..Len(room_lower) : IsDigit(room_lower[i])
            THEN "uczelnia"
            ELSE "inne_lokalizacje"
    IN  IF ~Truthy(room) THEN "inne_lokalizacje" ELSE Rules(Lower(room))

(***************************************************************************)
(* The two analyzers under the same call: a driver picks a title or a      *)
(* room, calls the method of both and keeps the two results.               *)
(***************************************************************************)
AgreeArgs ==
    {[kind |-> "title", value |-> a] : a \in ParseArgs}
      \cup {[kind |-> "room", value |-> room] : room \in RoomArgs}

InitAgree ==
    /\ Holds(NewAnalyzer)
    /\ fed = <<>>
    /\ pc = "call"
    /\ arg \in AgreeArgs
    /\ ret = <<>>

\* SimpleICSAnalyzer().parse_event_title(title), ICSAnalyzer().parse_event_title(title)
CallBothParse ==
    /\ pc = "call"
    /\ arg.kind = "title"
    /\ \E title \in {TitleOf(arg.value)} :
          ret' = <<parse_event_title(title), ICSAnalyzer_parse_event_title(title)>>
    /\ pc' = "return"
    /\ UNCHANGED <<stats, location_stats, subjects, uczelnia_schedule,
                   time_stats, raised, fed, arg>>

\* SimpleICSAnalyzer().categorize_location(room), ICSAnalyzer().categorize_location(room)
CallBothCategorize ==
    /\ pc = "call"
    /\ arg.kind = "room"
    /\ ret' = <<categorize_location(arg.value), ICSAnalyzer_categorize_location(arg.value)>>
    /\ pc' = "return"
    /\ UNCHANGED <<stats, location_stats, subjects, uczelnia_schedule,
                   time_stats, raised, fed, arg>>

NextAgree == CallBothParse \/ CallBothCategorize

SpecAgree == InitAgree /\ [][NextAgree]_vars

\* C20: for every title the two analyzers' parse_event_title return the
\* same four values, and for every room their categorize_location return
\* the same category.
C20_AnalyzersAgree ==
    pc = "return" => ret[1] = ret[2]

(***************************************************************************)
(* One calendar in two orders: a fresh analyzer is fed the events in the   *)
(* order of the file while another fresh analyzer is fed the same events   *)
(* in a permuted order.  The variables hold the first analyzer, ret the    *)
(* second; arg holds the events and the permutation.                       *)
(***************************************************************************)
\* The most events of a calendar fed in two orders.
MaxShuffled == 3

\* A lecture on campus, a remote exercise and a lab on campus of one
\* subject with different instructors, and free text.
OrderEvents ==
    { ("SUMMARY" :> FullTitle(SubjBD, Sp, TagW, Sp, Sp, InstrJK, RoomA101)
         @@ "DTSTART" :> Tok0800 @@ "DTEND" :> Tok0915),
      ("SUMMARY" :> FullTitle(SubjAl, Sp, TagECacuteW, Sp, Sp, InstrMK, RoomTeams)
         @@ "DTSTART" :> Tok2300 @@ "DTEND" :> TokNext0100),
      ("SUMMARY" :> FullTitle(SubjAl, Sp, TagL, Sp, Sp, InstrAN, RoomB2)
         @@ "DTSTART" :> Tok0915 @@ "DTEND" :> Tok2300),
      ("SUMMARY" :> TitleLosowy @@ "DTSTART" :> Tok0800 @@ "DTEND" :> Tok0915) }

\* The orders of n events: the permutations of 1..n
Orders(n) ==
    {p \in [1..n -> 1..n] : \A i, j \in 1..n : i # j => p[i] # p[j]}

InitOrder ==
    /\ Holds(NewAnalyzer)
    /\ ret = NewAnalyzer
    /\ fed = <<>>
    /\ pc = "order"
    /\ \E n \in 0..MaxShuffled :
          \E events \in [1..n -> OrderEvents] :
              \E order \in Orders(n) :
                  arg = [events |-> events, order |-> order]

\* The next event of the file goes to the first analyzer, the next event of
\* the permuted calendar to the second.
FeedBoth ==
    /\ pc = "order"
    /\ Len(fed) < Len(arg.events)
    /\ \E k \in {Len(fed) + 1} :
          /\ \E after \in {_process_simple_event(Self, arg.events[k])} :
                /\ stats' = after.stats
                /\ location_stats' = after.location_stats
                /\ subjects' = after.subjects
                /\ uczelnia_schedule' = after.uczelnia_schedule
                /\ time_stats' = after.time_stats
                /\ raised' = after.raised
          /\ ret' = _process_simple_event(ret, arg.events[arg.order[k]])
          /\ fed' = Append(fed, arg.events[k])
    /\ UNCHANGED <<pc, arg>>

NextOrder == FeedBoth

SpecOrder == InitOrder /\ [][NextOrder]_vars

\* C18: after a calendar and after any permutation of it, two fresh
\* analyzers hold the same type counters, location counters, minute totals
\* and subject records, and itineraries of the same entries, each as often
\* in the one as in the other.
C18_OrderIndependence ==
    (pc = "order" /\ Len(fed) = Len(arg.events)) =>
        /\ stats = ret.stats
        /\ location_stats = ret.location_stats
        /\ time_stats = ret.time_stats
        /\ subjects = ret.subjects
        /\ Len(uczelnia_schedule) = Len(ret.uczelnia_schedule)
        /\ \A k \in 1..Len(uczelnia_schedule) :
               Occurrences(uczelnia_schedule[k], uczelnia_schedule)
                 = Occurrences(uczelnia_schedule[k], ret.uczelnia_schedule)

\* C18 witness: three events were fed in two different orders; the two
\* itineraries differ in order, and a subject has two instructors.
C18_Witness ==
    /\ pc = "order"
    /\ Len(arg.events) = 3 /\ Len(fed) = 3
    /\ uczelnia_schedule # ret.uczelnia_schedule
    /\ Len(uczelnia_schedule) = 2
    /\ \E subject \in DOMAIN subjects : Cardinality(subjects[subject].prowadzacy) = 2
    /\ subjects = ret.subjects

(***************************************************************************)
(* SimpleICSAnalyzer._extract_events: the scan of the lines of a calendar. *)
(* arg holds the lines of content.split; ret holds the locals of the       *)
(* method: the list events, the dict current_event, the flag in_event and  *)
(* the number of lines the loop has taken.  A dict is the function from    *)
(* its keys to their values.                                               *)
(***************************************************************************)
\* The most lines of a calendar.
MaxLines == 4

LineBegin == <<"B","E","G","I","N",":","V","E","V","E","N","T">>
LineEnd == <<"E","N","D",":","V","E","V","E","N","T">>

\* The lines a calendar is written from: the two marks of a block, two
\* fields, one of them indented and ended by a carriage return, and a line
\* without a colon.
CalendarLines ==
    { LineBegin, LineEnd, <<"S",":","x">>, <<" ","D",":","1",":","2","\r">>, <<"j">> }

\* line.split(':', 1) of a line that holds a colon: <<key, value>>
SplitAtColon(line) ==
    The({ <<SubSeq(line, 1, c - 1), SubSeq(line, c + 1, Len(line))>>
          : c \in {Least({k \in 1..Len(line) : line[k] = ":"})} })

\* d[key] = value
Put(d, key, value) ==
    [k \in DOMAIN d \cup {key} |-> IF k = key THEN value ELSE d[k]]

\* The line the next turn of the loop takes, stripped.
NextLine == Strip(arg[ret.taken + 1])

InitExtract ==
    /\ Holds(NewAnalyzer)
    /\ fed = <<>>
    /\ pc = "scan"
    /\ \E n \in 0..MaxLines : arg \in [1..n -> CalendarLines]
    /\ ret = [events |-> <<>>, current_event |-> <<>>, in_event |-> FALSE, taken |-> 0]

\* if line == 'BEGIN:VEVENT'
ScanBegin ==
    /\ pc = "scan"
    /\ ret.taken < Len(arg)
    /\ NextLine = LineBegin
    /\ ret' = [ret EXCEPT !.in_event = TRUE, !.current_event = <<>>,
                          !.taken = @ + 1]
    /\ UNCHANGED <<stats, location_stats, subjects, uczelnia_schedule,
                   time_stats, raised, fed, arg, pc>>

\* elif line == 'END:VEVENT'
ScanEnd ==
    /\ pc = "scan"
    /\ ret.taken < Len(arg)
    /\ NextLine = LineEnd
    /\ ret' = [ret EXCEPT
                  !.events = IF DOMAIN ret.current_event # {}
                             THEN Append(@, ret.current_event) ELSE @,
                  !.in_event = FALSE,
                  !.taken = @ + 1]
    /\ UNCHANGED <<stats, location_stats, subjects, uczelnia_schedule,
                   time_stats, raised, fed, arg, pc>>

\* elif in_event and ':' in line
ScanField ==
    /\ pc = "scan"
    /\ ret.taken < Len(arg)
    /\ NextLine \notin {LineBegin, LineEnd}
    /\ ret.in_event /\ In(<<":">>, NextLine)
    /\ \E pair \in {SplitAtColon(NextLine)} :
          ret' = [ret EXCEPT !.current_event = Put(@, pair[1], pair[2]),
                             !.taken = @ + 1]
    /\ UNCHANGED <<stats, location_stats, subjects, uczelnia_schedule,
                   time_stats, raised, fed, arg, pc>>

\* no branch of the loop body applies
ScanOther ==
    /\ pc = "scan"
    /\ ret.taken < Len(arg)
    /\ NextLine \notin {LineBegin, LineEnd}
    /\ ~(ret.in_event /\ In(<<":">>, NextLine))
    /\ ret' = [ret EXCEPT !.taken = @ + 1]
    /\ UNCHANGED <<stats, location_stats, subjects, uczelnia_schedule,
                   time_stats, raised, fed, arg, pc>>

\* return events
ReturnEvents ==
    /\ pc = "scan"
    /\ ret.taken = Len(arg)
    /\ pc' = "return"
    /\ UNCHANGED <<stats, location_stats, subjects, uczelnia_schedule,
                   time_stats, raised, fed, arg, ret>>

NextExtract == ScanBegin \/ ScanEnd \/ ScanField \/ ScanOther \/ ReturnEvents

SpecExtract == InitExtract /\ [][NextExtract]_vars

RECURSIVE BlocksFrom(_, _, _, _)
\* The records of the blocks of the lines from index k on: a block runs
\* from a BEGIN:VEVENT line to the next END:VEVENT line and gives one
\* record, of its own key:value lines, when it has any.
BlocksFrom(lines, k, open, record) ==
    IF k > Len(lines) THEN <<>>
    ELSE LET line == Strip(lines[k])
         IN  IF line = LineBegin THEN BlocksFrom(lines, k + 1, TRUE, <<>>)
             ELSE IF line = LineEnd
             THEN (IF open /\ DOMAIN record # {} THEN <<record>> ELSE <<>>)
                    \o BlocksFrom(lines, k + 1, FALSE, <<>>)
             ELSE IF open /\ In(<<":">>, line)
             THEN BlocksFrom(lines, k + 1, open,
                             Put(record, SplitAtColon(line)[1], SplitAtColon(line)[2]))
             ELSE BlocksFrom(lines, k + 1, open, record)

\* C19: _extract_events returns, in the order of the file, one record for
\* each block BEGIN:VEVENT ... END:VEVENT that holds a key:value line, with
\* the key:value lines of that block only; it returns no more records than
\* there are BEGIN:VEVENT lines, and lines outside a block, a stray
\* END:VEVENT among them, add nothing.
C19_OneRecordPerBlock ==
    pc = "return" =>
        /\ ret.events = BlocksFrom(arg, 1, FALSE, <<>>)
        /\ Len(ret.events)
             <= Cardinality({k \in 1..Len(arg) : Strip(arg[k]) = LineBegin})

====
